---- MODULE Spec2Model ----
(***************************************************************************)
(* Batch orchestration of per-series structural model estimation           *)
(* (ssl/juliacall_integration.py).                                         *)
(*                                                                         *)
(* The module body acquires the Julia bridge once and binds the global     *)
(* JULIA_AVAILABLE; run_structural_model(price_data) then walks the        *)
(* columns of the dataset, cleans each one, hands it to getssl and         *)
(* collects the outcomes in an insertion-ordered dict.                     *)
(*                                                                         *)
(* Abstractions: a float is an integer price; a cell of the DataFrame is a *)
(* record [kind, v] with kind "num" (a number), "nan" (missing) or "str"   *)
(* (text that float() rejects).  Records written to the logger leave the   *)
(* process and are not part of the state.  getssl.jl is not among the      *)
(* sources; its outcomes follow the collaborator contract.                 *)
(***************************************************************************)
EXTENDS Integers, Sequences, FiniteSets, TLC

VARIABLES
    modState,         \* "importing" | "loaded" | "failed": the module body
    acquisition,      \* how the try block of the module body ended
    JULIA_AVAILABLE,  \* "unbound" | "True" | "False": the module global
    price_data,       \* the DataFrame handed to run_structural_model
    pc,               \* "idle" | "loop" | "returned" | "raised"
    idx,              \* position of the for loop in price_data.columns
    results,          \* the dict being built, as a sequence of [key, value]
    ret,              \* what the last finished call gave its caller
    trace,            \* per finished iteration: what was read, called, got
    prev,             \* the previous finished call: its trace and its ret
    ncalls,           \* number of calls of run_structural_model so far
    budget            \* number of calls the caller is going to make

vars == <<modState, acquisition, JULIA_AVAILABLE, price_data, pc, idx,
          results, ret, trace, prev, ncalls, budget>>

(***************************************************************************)
(* Bounds                                                                  *)
(***************************************************************************)
MaxCols == 2
MaxRows == 2
MaxCalls == 2

Min(a, b) == IF a < b THEN a ELSE b

(***************************************************************************)
(* Datasets                                                                *)
(***************************************************************************)
Tickers == <<"MSFT", "AAPL", "GOOG">>

Cells == { [kind |-> "num", v |-> 150],
           [kind |-> "nan", v |-> 0],
           [kind |-> "str", v |-> 0] }

\* Column labels are unique identifiers: the first n tickers, in the order
\* above or in the opposite one.
ColumnLists ==
    UNION { { [i \in 1..n |-> i], [i \in 1..n |-> n + 1 - i] }
            : n \in 1..Min(MaxCols, Len(Tickers)) }

\* What a column may hold: one cell per row of the common index.
ColumnContents == [1..MaxRows -> Cells]

\* The columns that hold one kind of cell: all numbers, all missing, all text.
UniformContents == { [r \in 1..MaxRows |-> c] : c \in Cells }

\* The DataFrame with the columns cl, column Tickers[cl[i]] holding d[cl[i]].
DataFrame(cl, d) ==
    [columns |-> [i \in 1..Len(cl) |-> Tickers[cl[i]]],
     data    |-> [t \in {Tickers[cl[i]] : i \in 1..Len(cl)} |->
                     d[CHOOSE k \in 1..Len(Tickers) : Tickers[k] = t]]]

(***************************************************************************)
(* Python dict with insertion order                                        *)
(***************************************************************************)
Keys(d) == { d[i].key : i \in 1..Len(d) }

KeySeq(d) == [i \in 1..Len(d) |-> d[i].key]

Lookup(d, k) == d[CHOOSE i \in 1..Len(d) : d[i].key = k].value

\* d[k] = v: an existing key keeps its position, a new key goes last.
DictSet(d, k, v) ==
    IF k \in Keys(d)
    THEN [i \in 1..Len(d) |-> IF d[i].key = k THEN [key |-> k, value |-> v]
                                               ELSE d[i]]
    ELSE Append(d, [key |-> k, value |-> v])

\* r.get(k, default)
DictGet(r, k, default) == IF k \in DOMAIN r THEN r[k] ELSE default

(***************************************************************************)
(* Series extraction: price_data[ticker].dropna().values.astype(float)     *)
(***************************************************************************)
RECURSIVE dropna(_)
dropna(col) ==
    IF col = <<>> THEN <<>>
    ELSE IF Head(col).kind = "nan" THEN dropna(Tail(col))
         ELSE <<Head(col)>> \o dropna(Tail(col))

\* float() accepts numbers and rejects text with a ValueError.
Convertible(col) == \A i \in 1..Len(col) : col[i].kind # "str"

astype_float(col) == [i \in 1..Len(col) |-> col[i].v]

ValueError == [type |-> "ValueError", msg |-> "could not convert string to float"]

(***************************************************************************)
(* The estimation gateway getssl(prices)                                   *)
(***************************************************************************)
ExcMsgs == {"", "singular matrix"}

GatewayOutcomes(prices) ==
    { [kind |-> "raise", exc |-> [type |-> "JuliaError", msg |-> m]] : m \in ExcMsgs }
    \cup { [kind |-> "return", value |-> [success |-> FALSE, message |-> "estimation failed"]],
           [kind |-> "return", value |-> [message |-> "no status"]] }
    \cup ( IF Len(prices) > 0
           THEN { [kind |-> "return", value |-> [success |-> TRUE, trend |-> prices]] }
           ELSE {} )

(***************************************************************************)
(* Module body                                                             *)
(***************************************************************************)
AcquisitionOutcomes == {"ok", "ImportError", "JuliaError"}

\* The process before the module body runs, for a caller that is going to
\* make b calls with a dataset whose columns are among contents.
Start(b, contents) ==
    /\ budget = b
    /\ modState = "importing"
    /\ acquisition = "pending"
    /\ JULIA_AVAILABLE = "unbound"
    /\ \E cl \in ColumnLists :
         \E d \in [{cl[i] : i \in 1..Len(cl)} -> contents] :
            price_data = DataFrame(cl, d)
    /\ pc = "idle"
    /\ idx = 0
    /\ results = <<>>
    /\ ret = [kind |-> "none"]
    /\ trace = <<>>
    /\ prev = [done |-> FALSE, trace |-> <<>>, ret |-> [kind |-> "none"]]
    /\ ncalls = 0

\* A caller that runs the model once, on any dataset.
Init == Start(1, ColumnContents)

\* A caller that runs the model again and again on a dataset whose columns
\* are each all numbers, all missing or all text.
InitPair == Start(MaxCalls, UniformContents)

\* The try block: the import of juliacall, seval and include.  Only an
\* ImportError is handled; anything else leaves the module body.
ImportModule ==
    /\ modState = "importing"
    /\ \E o \in AcquisitionOutcomes :
         /\ acquisition' = o
         /\ IF o = "ok"
            THEN JULIA_AVAILABLE' = "True" /\ modState' = "loaded"
            ELSE IF o = "ImportError"
                 THEN JULIA_AVAILABLE' = "False" /\ modState' = "loaded"
                 ELSE JULIA_AVAILABLE' = "unbound" /\ modState' = "failed"
    /\ UNCHANGED <<price_data, pc, idx, results, ret, trace, prev, ncalls, budget>>

(***************************************************************************)
(* run_structural_model                                                    *)
(***************************************************************************)
\* The guard with its test the wrong way round.
Unavailable_m == JULIA_AVAILABLE = "True"

\* `not JULIA_AVAILABLE`
Unavailable == JULIA_AVAILABLE # "True"

\* Entry of the function: the guard, then results = {}.
Call ==
    /\ modState = "loaded"
    /\ pc \in {"idle", "returned", "raised"}
    /\ ncalls < budget
    /\ ncalls' = ncalls + 1
    /\ prev' = [done |-> pc # "idle", trace |-> trace, ret |-> ret]
    /\ trace' = <<>>
    /\ results' = <<>>
    /\ IF Unavailable
       THEN /\ pc' = "raised"
            /\ ret' = [kind |-> "RuntimeError"]
            /\ idx' = 0
       ELSE /\ pc' = "loop"
            /\ ret' = [kind |-> "none"]
            /\ idx' = 1
    /\ UNCHANGED <<modState, acquisition, JULIA_AVAILABLE, price_data, budget>>

\* The column the for loop is at.
Ticker == price_data.columns[idx]

\* The column as it is, missing observations included.
Cleaned_m == price_data.data[Ticker]

\* price_data[ticker].dropna()
Cleaned == dropna(price_data.data[Ticker])

\* A handler for the errors of the bridge only.
Catches_m(exc) == exc.type = "JuliaError"

\* `except Exception`: every error a series can raise derives from Exception.
Catches(exc) == exc.type \in {"ValueError", "JuliaError", "NameError", "AttributeError"}

\* A failure entry whose message is the text of the error alone.
FailureRecord_m(ticker, exc) == [success |-> FALSE, message |-> exc.msg]

\* The entry the handler writes for a series whose processing raised.
FailureRecord(ticker, exc) ==
    [success |-> FALSE,
     message |-> "Error processing " \o ticker \o ": " \o exc.msg]

\* The flag read with the default the wrong way round.
Valid_m(result) == DictGet(result, "success", TRUE)

\* `result.get('success', False)`
Valid(result) == DictGet(result, "success", FALSE)

\* getssl is bound by the module body only when the acquisition succeeded.
getssl(prices) ==
    IF acquisition = "ok"
    THEN GatewayOutcomes(prices)
    ELSE { [kind |-> "raise",
            exc  |-> [type |-> "NameError", msg |-> "name 'getssl' is not defined"]] }

\* A handler that leaves the loop.
AfterHandler_m == Len(price_data.columns) + 1

\* What the loop does once the handler has run: go on with the next column.
AfterHandler == idx + 1

\* A handler that reports the error and writes no entry.
Raised_m(exc, called, prices) ==
    /\ trace' = Append(trace, [ticker |-> Ticker, called |-> called,
                               prices |-> prices,
                               outcome |-> [kind |-> "raise", exc |-> exc]])
    /\ results' = results
    /\ idx' = idx + 1
    /\ pc' = "loop"
    /\ ret' = ret

\* An error raised inside the try block of the current iteration.
Raised(exc, called, prices) ==
    /\ trace' = Append(trace, [ticker |-> Ticker, called |-> called,
                               prices |-> prices,
                               outcome |-> [kind |-> "raise", exc |-> exc]])
    /\ IF Catches(exc)
       THEN /\ results' = DictSet(results, Ticker, FailureRecord(Ticker, exc))
            /\ idx' = AfterHandler
            /\ pc' = "loop"
            /\ ret' = ret
       ELSE /\ results' = results
            /\ idx' = idx
            /\ pc' = "raised"
            /\ ret' = [kind |-> exc.type]

InLoop == pc = "loop" /\ idx <= Len(price_data.columns)

\* astype(float) raises: the gateway is not reached.
IterExtractError ==
    /\ InLoop
    /\ ~Convertible(Cleaned)
    /\ Raised(ValueError, FALSE, <<>>)
    /\ UNCHANGED <<modState, acquisition, JULIA_AVAILABLE, price_data, prev, ncalls, budget>>

\* getssl(prices) raises.
IterGatewayRaise ==
    /\ InLoop
    /\ Convertible(Cleaned)
    /\ \E o \in getssl(astype_float(Cleaned)) :
         /\ o.kind = "raise"
         /\ Raised(o.exc, TRUE, astype_float(Cleaned))
    /\ UNCHANGED <<modState, acquisition, JULIA_AVAILABLE, price_data, prev, ncalls, budget>>

\* The invalid result stored like a valid one (the `continue` left out).
IterSignaled_m ==
    /\ pc = "loop" /\ idx <= Len(price_data.columns)
    /\ Convertible(Cleaned)
    /\ \E o \in getssl(astype_float(Cleaned)) :
         /\ o.kind = "return"
         /\ ~Valid(o.value)
         /\ trace' = Append(trace, [ticker |-> Ticker, called |-> TRUE,
                                    prices |-> astype_float(Cleaned),
                                    outcome |-> o])
         /\ results' = DictSet(results, Ticker, o.value)
    /\ idx' = idx + 1
    /\ UNCHANGED <<modState, acquisition, JULIA_AVAILABLE, price_data, pc,
                   ret, prev, ncalls, budget>>

\* getssl(prices) returns a result that is not valid: warn and `continue`.
IterSignaled ==
    /\ InLoop
    /\ Convertible(Cleaned)
    /\ \E o \in getssl(astype_float(Cleaned)) :
         /\ o.kind = "return"
         /\ ~Valid(o.value)
         /\ trace' = Append(trace, [ticker |-> Ticker, called |-> TRUE,
                                    prices |-> astype_float(Cleaned),
                                    outcome |-> o])
    /\ idx' = idx + 1
    /\ UNCHANGED <<modState, acquisition, JULIA_AVAILABLE, price_data, pc,
                   results, ret, prev, ncalls, budget>>

\* The dict replaced by a new one instead of updated.
IterSuccess_m ==
    /\ pc = "loop" /\ idx <= Len(price_data.columns)
    /\ Convertible(Cleaned)
    /\ \E o \in getssl(astype_float(Cleaned)) :
         /\ o.kind = "return"
         /\ Valid(o.value)
         /\ trace' = Append(trace, [ticker |-> Ticker, called |-> TRUE,
                                    prices |-> astype_float(Cleaned),
                                    outcome |-> o])
         /\ results' = <<[key |-> Ticker, value |-> o.value]>>
    /\ idx' = idx + 1
    /\ UNCHANGED <<modState, acquisition, JULIA_AVAILABLE, price_data, pc,
                   ret, prev, ncalls, budget>>

\* getssl(prices) returns a valid result: results[ticker] = result.
IterSuccess ==
    /\ InLoop
    /\ Convertible(Cleaned)
    /\ \E o \in getssl(astype_float(Cleaned)) :
         /\ o.kind = "return"
         /\ Valid(o.value)
         /\ trace' = Append(trace, [ticker |-> Ticker, called |-> TRUE,
                                    prices |-> astype_float(Cleaned),
                                    outcome |-> o])
         /\ results' = DictSet(results, Ticker, o.value)
    /\ idx' = idx + 1
    /\ UNCHANGED <<modState, acquisition, JULIA_AVAILABLE, price_data, pc,
                   ret, prev, ncalls, budget>>

\* The loop is exhausted: return results.
Return ==
    /\ pc = "loop"
    /\ idx > Len(price_data.columns)
    /\ pc' = "returned"
    /\ ret' = [kind |-> "mapping", value |-> results]
    /\ UNCHANGED <<modState, acquisition, JULIA_AVAILABLE, price_data, idx,
                   results, trace, prev, ncalls, budget>>

Next ==
    \/ ImportModule
    \/ Call
    \/ IterExtractError
    \/ IterGatewayRaise
    \/ IterSignaled
    \/ IterSuccess
    \/ Return

Spec == Init /\ [][Next]_vars

SpecPair == InitPair /\ [][Next]_vars

(***************************************************************************)
(* Vocabulary of the properties                                            *)
(***************************************************************************)
Columns == price_data.columns

ColPos(c) == CHOOSE k \in 1..Len(Columns) : Columns[k] = c

\* The series of column c was read by the current call.
Processed(c) == \E i \in 1..Len(trace) : trace[i].ticker = c

\* getssl was called for column c by the current call.
GatewayCalled(c) == \E i \in 1..Len(trace) : trace[i].ticker = c /\ trace[i].called

\* Number of observations of column c that are not missing.
NonMissing(c) ==
    Cardinality({ r \in DOMAIN price_data.data[c] : price_data.data[c][r].kind # "nan" })

\* Column c holds text that cannot be read as a number.
HasText(c) == \E r \in DOMAIN price_data.data[c] : price_data.data[c][r].kind = "str"

\* Number of entries of the mapping m under key c.
Count(m, c) == Cardinality({ i \in 1..Len(m) : m[i].key = c })

IsFailureEntry(v) ==
    /\ DOMAIN v = {"success", "message"}
    /\ v.success = FALSE

IsSuccessEntry(v) == "success" \in DOMAIN v /\ v.success = TRUE

GatewayRaised(e) == e.called /\ e.outcome.kind = "raise"

ReturnedFalse(e) ==
    /\ e.outcome.kind = "return"
    /\ "success" \in DOMAIN e.outcome.value
    /\ e.outcome.value.success = FALSE

ReturnedTrue(e) ==
    /\ e.outcome.kind = "return"
    /\ "success" \in DOMAIN e.outcome.value
    /\ e.outcome.value.success = TRUE

(***************************************************************************)
(* C1: when JULIA_AVAILABLE is false, every call of run_structural_model   *)
(* ends with the RuntimeError of the guard: no column has been read, the   *)
(* gateway has not been called and no mapping is built or returned.        *)
(***************************************************************************)
C1_FailFast ==
    (JULIA_AVAILABLE = "False" /\ ncalls > 0) =>
        /\ pc = "raised"
        /\ ret.kind = "RuntimeError"
        /\ trace = <<>>
        /\ results = <<>>
        /\ \A c \in DOMAIN price_data.data : ~Processed(c) /\ ~GatewayCalled(c)

C1_Witness ==
    /\ JULIA_AVAILABLE = "False"
    /\ ncalls = MaxCalls
    /\ pc = "raised"
    /\ ret.kind = "RuntimeError"

(***************************************************************************)
(* C2 as stated: for every column whose gateway call raised, the returned  *)
(* mapping holds a failure entry with a non-empty message under its key,   *)
(* and the gateway is called for every later column.                       *)
(***************************************************************************)
C2_Original ==
    pc = "returned" =>
        \A i \in 1..Len(trace) : GatewayRaised(trace[i]) =>
            /\ Count(ret.value, trace[i].ticker) = 1
            /\ IsFailureEntry(Lookup(ret.value, trace[i].ticker))
            /\ Lookup(ret.value, trace[i].ticker).message # ""
            /\ \A k \in 1..Len(Columns) :
                   k > ColPos(trace[i].ticker) => GatewayCalled(Columns[k])

(***************************************************************************)
(* C2 amended: for every column whose gateway call raised, the returned    *)
(* mapping holds a failure entry with a non-empty message under its key,   *)
(* and every later column is still processed: its series is read, and the  *)
(* gateway is called for it unless its own extraction raises.              *)
(***************************************************************************)
C2_RaisedIsRecorded ==
    pc = "returned" =>
        \A i \in 1..Len(trace) : GatewayRaised(trace[i]) =>
            /\ Count(ret.value, trace[i].ticker) = 1
            /\ IsFailureEntry(Lookup(ret.value, trace[i].ticker))
            /\ Lookup(ret.value, trace[i].ticker).message # ""
            /\ \A k \in 1..Len(Columns) :
                   k > ColPos(trace[i].ticker) =>
                       /\ Processed(Columns[k])
                       /\ GatewayCalled(Columns[k]) <=> ~HasText(Columns[k])

C2_Witness ==
    /\ pc = "returned"
    /\ Len(trace) >= 2
    /\ GatewayRaised(trace[1])
    /\ trace[1].outcome.exc.msg = ""
    /\ GatewayCalled(Columns[2])

(***************************************************************************)
(* C3: a column for which the gateway returned success=false without       *)
(* raising has no entry in the mapping, neither while it is built nor when *)
(* it is returned.                                                         *)
(***************************************************************************)
C3_SignaledIsOmitted ==
    \A i \in 1..Len(trace) : ReturnedFalse(trace[i]) =>
        /\ trace[i].ticker \notin Keys(results)
        /\ pc = "returned" => trace[i].ticker \notin Keys(ret.value)

C3_Witness ==
    /\ pc = "returned"
    /\ Len(trace) >= 2
    /\ ReturnedFalse(trace[1])
    /\ Len(ret.value) >= 1

(***************************************************************************)
(* C4: for every column whose gateway call returned success=true, the      *)
(* returned mapping holds under its key a trend whose length is the number *)
(* of non-missing observations of the column.                              *)
(***************************************************************************)
C4_TrendLength ==
    pc = "returned" =>
        \A i \in 1..Len(trace) : ReturnedTrue(trace[i]) =>
            /\ Count(ret.value, trace[i].ticker) = 1
            /\ "trend" \in DOMAIN Lookup(ret.value, trace[i].ticker)
            /\ Len(Lookup(ret.value, trace[i].ticker).trend) = NonMissing(trace[i].ticker)

C4_Witness ==
    /\ pc = "returned"
    /\ \E i \in 1..Len(trace) :
         /\ ReturnedTrue(trace[i])
         /\ NonMissing(trace[i].ticker) = 1
         /\ Len(price_data.data[trace[i].ticker]) > 1

(***************************************************************************)
(* C5: once the guard has passed, a call never raises: whatever a series   *)
(* raises is handled inside its own iteration, the loop reaches every      *)
(* column and the call returns a mapping.                                  *)
(***************************************************************************)
C5_NeverRaises ==
    JULIA_AVAILABLE = "True" =>
        /\ pc # "raised"
        /\ ret.kind \in {"none", "mapping"}
        /\ pc = "returned" =>
             /\ ret.kind = "mapping"
             /\ \A k \in 1..Len(Columns) : Processed(Columns[k])

C5_Witness ==
    /\ JULIA_AVAILABLE = "True"
    /\ pc = "returned"
    /\ ret.kind = "mapping"
    /\ \E i, j \in 1..Len(trace) :
         /\ ~trace[i].called /\ trace[i].outcome.exc.type = "ValueError"
         /\ GatewayRaised(trace[j]) /\ NonMissing(trace[j].ticker) = 0

(***************************************************************************)
(* Two successive calls over the same dataset                              *)
(***************************************************************************)
EntryOf(tr, c) == tr[CHOOSE i \in 1..Len(tr) : tr[i].ticker = c]

In(tr, c) == \E i \in 1..Len(tr) : tr[i].ticker = c

IsFailure(o) ==
    \/ o.kind = "raise"
    \/ o.kind = "return" /\ ~DictGet(o.value, "success", FALSE)

\* What a mapping says about column c.
OutcomeIn(m, c) ==
    IF c \notin Keys(m) THEN "absent"
    ELSE IF DictGet(Lookup(m, c), "success", FALSE) THEN "success" ELSE "failure"

\* The current call differs from the previous one in a failure at column j:
\* there the gateway now fails and did something else before, and every other
\* column met the same outcome wherever both calls reached it.
InjectedAt(j) ==
    /\ In(trace, j) /\ In(prev.trace, j)
    /\ IsFailure(EntryOf(trace, j).outcome)
    /\ EntryOf(trace, j).outcome # EntryOf(prev.trace, j).outcome
    /\ \A c \in DOMAIN price_data.data :
         (c # j /\ In(trace, c) /\ In(prev.trace, c)) =>
             EntryOf(trace, c).outcome = EntryOf(prev.trace, c).outcome

(***************************************************************************)
(* C6: when two calls over the same columns differ only in a failure       *)
(* (raised or signaled) injected for one column, every other column is     *)
(* present or absent, and successful or failed, alike in both mappings.    *)
(***************************************************************************)
C6_Isolation ==
    (pc = "returned" /\ prev.done /\ prev.ret.kind = "mapping") =>
        \A j \in DOMAIN price_data.data : InjectedAt(j) =>
            \A c \in DOMAIN price_data.data :
                c # j => OutcomeIn(ret.value, c) = OutcomeIn(prev.ret.value, c)

C6_Witness ==
    /\ pc = "returned" /\ prev.done /\ prev.ret.kind = "mapping"
    /\ Len(Columns) >= 2
    /\ InjectedAt(Columns[1])
    /\ OutcomeIn(prev.ret.value, Columns[1]) = "success"
    /\ OutcomeIn(ret.value, Columns[1]) = "failure"
    /\ OutcomeIn(ret.value, Columns[2]) = "success"

(***************************************************************************)
(* C7 as stated: every column of the dataset appears in the returned       *)
(* mapping exactly once, with a success entry or a failure entry.          *)
(***************************************************************************)
C7_Original ==
    pc = "returned" =>
        \A k \in 1..Len(Columns) :
            /\ Count(ret.value, Columns[k]) = 1
            /\ \/ IsSuccessEntry(Lookup(ret.value, Columns[k]))
               \/ IsFailureEntry(Lookup(ret.value, Columns[k]))

(***************************************************************************)
(* C7 amended: every column of the dataset whose gateway call did not      *)
(* return an invalid result (success false or missing) appears in the      *)
(* returned mapping exactly once, with a success entry when the gateway    *)
(* returned success=true and a failure entry when its processing raised;   *)
(* a column whose gateway call returned an invalid result does not appear. *)
(***************************************************************************)
C7_ExactlyOnceUnlessSignaled ==
    pc = "returned" =>
        \A k \in 1..Len(Columns) :
            /\ In(trace, Columns[k])
            /\ LET e == EntryOf(trace, Columns[k])
                   n == Count(ret.value, Columns[k])
               IN  /\ e.outcome.kind = "raise" =>
                         n = 1 /\ IsFailureEntry(Lookup(ret.value, Columns[k]))
                   /\ ReturnedTrue(e) =>
                         n = 1 /\ IsSuccessEntry(Lookup(ret.value, Columns[k]))
                   /\ (e.outcome.kind = "return" /\ ~ReturnedTrue(e)) => n = 0

C7_Witness ==
    /\ pc = "returned"
    /\ Len(trace) >= 2
    /\ \E i, j \in 1..Len(trace) :
          /\ trace[i].outcome.kind = "raise"
          /\ trace[j].outcome.kind = "return" /\ ~ReturnedTrue(trace[j])
    /\ Len(ret.value) = Len(trace) - 1

(***************************************************************************)
(* C8: the flag is resolved by the module body and stays as resolved: in   *)
(* every state after a failed acquisition it is false, and after a         *)
(* successful one it is true, whatever calls have been made.               *)
(***************************************************************************)
C8_FlagResolvedOnce ==
    /\ acquisition \in {"ImportError", "JuliaError"} => JULIA_AVAILABLE = "False"
    /\ acquisition = "ok" => JULIA_AVAILABLE = "True"

(***************************************************************************)
(* C9: at every point of a call, each entry of the mapping is either the   *)
(* very result the gateway returned for that column, with a true success   *)
(* flag, or the failure entry derived from the error the column raised; a  *)
(* result returned with a false or missing flag is never an entry.         *)
(***************************************************************************)
C9_FlagAuthoritative ==
    \A i \in 1..Len(results) :
        /\ In(trace, results[i].key)
        /\ LET e == EntryOf(trace, results[i].key)
               v == results[i].value
           IN  \/ /\ e.outcome.kind = "return"
                  /\ v = e.outcome.value
                  /\ IsSuccessEntry(v)
               \/ /\ e.outcome.kind = "raise"
                  /\ IsFailureEntry(v)
                  /\ v.message = "Error processing " \o e.ticker \o ": " \o e.outcome.exc.msg

C9_Witness ==
    /\ pc = "returned"
    /\ Len(results) = 1
    /\ Len(trace) = 2
    /\ IsSuccessEntry(results[1].value)
    /\ \E i \in 1..Len(trace) :
         /\ trace[i].outcome.kind = "return"
         /\ "success" \notin DOMAIN trace[i].outcome.value

(***************************************************************************)
(* C10: a call takes the columns one at a time in the order of the         *)
(* dataset: each iteration handles the column right after the ones already *)
(* handled, the gateway is called at most once per column, the mapping     *)
(* only grows (entries written stay as they are), and the keys of the      *)
(* successful entries follow the order of their columns.                   *)
(***************************************************************************)
C10_Step ==
    /\ (pc = "loop" /\ trace' # trace) =>
          /\ Len(trace') = Len(trace) + 1
          /\ SubSeq(trace', 1, Len(trace)) = trace
          /\ trace'[Len(trace')].ticker = Columns[Len(trace')]
          /\ \A k \in 1..Len(trace) : trace[k].ticker = Columns[k]
    /\ pc = "loop" =>
          /\ Len(results') >= Len(results)
          /\ SubSeq(results', 1, Len(results)) = results
    /\ pc' = "returned" => ret'.value = results'
    /\ \A c \in DOMAIN price_data.data :
          Cardinality({ k \in 1..Len(trace') :
                          trace'[k].ticker = c /\ trace'[k].called }) <= 1
    /\ \A a, b \in 1..Len(results') :
          (a < b /\ IsSuccessEntry(results'[a].value) /\ IsSuccessEntry(results'[b].value))
              => ColPos(results'[a].key) < ColPos(results'[b].key)

C10_Sequential == [][C10_Step]_vars

C10_Witness ==
    /\ pc = "returned"
    /\ Len(Columns) = MaxCols
    /\ Len(ret.value) = MaxCols
    /\ \A a \in 1..Len(ret.value) : IsSuccessEntry(ret.value[a].value)
    /\ Columns[1] # Tickers[1]
====
